---- MODULE Spec2Model ----
(***************************************************************************)
(* The indexing pipeline of auden: the facade (index_directory,            *)
(* get_status), the parser task, the batching task with its                *)
(* EmbeddingQueue, the embed worker, the persistence task and the database *)
(* actor, together with the per-directory DirectoryState (job counter and  *)
(* Notify).                                                                *)
(*                                                                         *)
(* Tasks run on a multi-threaded runtime, so two tasks interleave at every *)
(* await point and also between the borrow() and the send_replace() of     *)
(* DirectoryState::new_job / job_dropped.                                  *)
(*                                                                         *)
(* usize values are represented by the integer congruent to them modulo    *)
(* 2^64 that is nearest to zero, so usize::MAX is written -1.              *)
(*                                                                         *)
(* Specifications: Spec is one indexing run on an empty store, BatchSpec   *)
(* the same run with files large enough to reach BATCH_SPANS, ReindexSpec  *)
(* a run on a directory that was indexed before, StoreSpec the database    *)
(* actor alone serving jobs of several directories, StoreErrSpec its       *)
(* writes with store errors, LargeSpec the run with files of more than     *)
(* BATCH_SPANS documents, ShutdownSpec the run with the SemanticIndex      *)
(* dropped at some point, ActorSpec the database actor statement by        *)
(* statement with callers queueing jobs meanwhile, EmbedErrSpec the run    *)
(* with a provider that can panic, WriteErrSpec the run with writes that   *)
(* can fail, LockSpec the run with the write-back of flush_queue taken     *)
(* fragment by fragment under the Mutex of each FileContext and a bounded  *)
(* finished-files channel, and QueueSpec the batching task alone, fed with *)
(* files of chosen sizes.                                                  *)
(***************************************************************************)
EXTENDS Integers, Sequences, FiniteSets, TLC

\* ------------------------------------------------------------------ bounds
NFiles == 2        \* entries of the indexed directory
MaxSpans == 2      \* documents a parsed file can have
NWaiters == 2      \* tasks that may await the returned notifier
MaxBatchSpans == 6 \* documents of the largest file of the batching runs
MaxIds == 6        \* rows the database creates in a run of store jobs
MaxDocs == 2       \* documents of a FileContext written by a store job
MaxN == 2          \* largest limit n of a search
MaxRequests == 3   \* requests callers send to the database actor
MaxJobs == 5       \* Embed jobs the batching task receives in QueueSpec
FinishedCapacity == 1  \* capacity of the finished-files channel in LockSpec

\* --------------------------------------------------------------- constants
BATCH_SPANS == 10

Files == 1..NFiles
Waiters == 1..NWaiters
Requests == 1..MaxRequests
Tasks == {"parser", "queue", "pers", "actor"}
Worker == "worker"                 \* the embed worker task, which owns no FileContext
Exts == {"rs", "txt"}
NoFile == 0
NoSlot == [st |-> "none", ok |-> FALSE, sent |-> 0]   \* oneshot not created yet
Empty == <<>>                      \* the zero-length embedding vector

VARIABLES
    entries,          \* the directory on disk: extension of each entry
    cpc,              \* caller of index_directory: start/walking/returned/failed
    walk_i,           \* next entry the walk visits
    existing_paths,   \* walk_directory's local set of stored paths
    directory_state,  \* SemanticIndex.directory_state: paths with a DirectoryState
    job_count,        \* DirectoryState.job_count_tx / job_count_rx value
    permit,           \* DirectoryState.notify: stored permit
    waitq,            \* DirectoryState.notify: waiters, oldest first
    wst,              \* each awaiting task: none/waiting/resolved
    parse_ch,         \* parse channel
    emb_ch,           \* embedding job channel
    embed_ch,         \* EmbeddingQueue.embed_tx channel: requests to the worker
    reply,            \* the oneshot of the flush in progress
    finished,         \* finished-files channel
    dbq,              \* VectorDatabase.executor channel
    pc,               \* position of each long-lived task
    drops,            \* per task: Arc<FileContext> references it is releasing
    rmw,              \* per task: the new_job / job_dropped call in progress
    documents,        \* per file: number of documents of its FileContext
    embeddings,       \* per file: the FileContext's embeddings
    life,             \* per file: none/failed/created/live/destroyed
    queue,            \* EmbeddingQueue.queue
    flushq,           \* flush_queue's local queue
    qj_file,          \* queue_job's local file_context while a flush runs
    new_values,       \* batching task's flag
    store,            \* the database: directory, file and span rows
    build,            \* overflow checks: unknown until an overflow happens
    aborted,          \* the process aborted (panic while unwinding)
    running,          \* database actor: the jobs it received and has not answered
    slots,            \* per request: the oneshot channel of its reply
    mutex,            \* per file: the task holding the FileContext's Mutex
    wb,               \* flush_queue: fragments its write-back loop has done
    hist              \* history: notify_one calls, completed new_job/job_dropped,
                      \* texts handed to the provider

vars == <<entries, cpc, walk_i, existing_paths, directory_state, job_count,
          permit, waitq, wst, parse_ch, emb_ch, embed_ch, reply, finished,
          dbq, pc, drops, rmw, documents, embeddings, life, queue, flushq,
          qj_file, new_values, store, build, aborted, running, slots, mutex, wb,
          hist>>

\* ----------------------------------------------------------------- helpers
RECURSIVE Count(_, _)
Count(s, x) ==
    IF s = <<>> THEN 0
    ELSE (IF Head(s) = x THEN 1 ELSE 0) + Count(Tail(s), x)

RECURSIVE SumSeq(_)
SumSeq(s) == IF s = <<>> THEN 0 ELSE Head(s) + SumSeq(Tail(s))

FragFiles(q) == [i \in 1..Len(q) |-> q[i].file]

\* the path of file f, and the one directory the model indexes
PathOf(f) == <<ToString(f)>>
Dir == <<"p">>

\* -------------------------------------------------------- DirectoryState
NoRmw == [op |-> "none", file |-> NoFile, cur |-> 0]

\* status without the test for zero
status_NoZeroTest == [tag |-> "Indexing", jobs_outstanding |-> job_count]

status ==
    IF job_count = 0
    THEN [tag |-> "Indexed", jobs_outstanding |-> 0]
    ELSE [tag |-> "Indexing", jobs_outstanding |-> job_count]

get_status(directory) ==
    IF directory \in directory_state
    THEN status
    ELSE [tag |-> "NotIndexed", jobs_outstanding |-> 0]

\* Notify::notify_one: wake the oldest waiter, or store one permit
notify_one ==
    /\ IF waitq # <<>>
       THEN /\ wst' = [wst EXCEPT ![Head(waitq)] = "resolved"]
            /\ waitq' = Tail(waitq)
            /\ UNCHANGED permit
       ELSE /\ permit' = TRUE
            /\ UNCHANGED <<wst, waitq>>

\* ------------------------------------------------------------ FileContext
document_ids(f) ==
    LET F[i \in 0..documents[f]] ==
            IF i = 0 THEN <<>>
            ELSE IF embeddings[f][i] = Empty THEN Append(F[i - 1], i - 1)
                 ELSE F[i - 1]
    IN F[documents[f]]

\* complete answering true for every FileContext
complete_Always(embs) == TRUE

complete(embs) == ~ \E i \in 1..Len(embs) : embs[i] = Empty

\* text and sha of documents[idx] of file f; the provider's vector for a text
Text(f, idx) == <<f, idx>>
Embed(text) == <<text>>

\* Arc<Mutex<FileContext>> strong count of file f
RefCount(f) ==
    Count(emb_ch, f) + Count(FragFiles(queue), f) + Count(FragFiles(flushq), f)
    + (IF qj_file = f THEN 1 ELSE 0) + Count(finished, f) + Count(dbq, f)
    + Count(drops["parser"], f) + Count(drops["queue"], f)
    + Count(drops["pers"], f) + Count(drops["actor"], f)

Idle(t) == drops[t] = <<>> /\ rmw[t] = NoRmw

\* ------------------------------------------------------------------ store
\* rows carry the id the database generated for them (a fresh number); a
\* file row carries the directory id of its owns edge and a span row the
\* file id of its contains edge (NoId while the edge is not created);
\* deleting a row removes its edges, so an edge to a deleted row matches no
\* row
NoId == 0
Quote == "'"
OrNotEmpty == <<" OR path != ", Quote>>

\* A path is a text: a sequence of pieces, one of which can be a quote.
\* format!("... path = '{}'", path) puts the text between two quotes; the
\* literal the database reads ends at the first quote of the text and what
\* follows it is read as more of the condition.
QuoteAt(text) ==
    IF \E i \in 1..Len(text) : text[i] = Quote
    THEN CHOOSE i \in 1..Len(text) :
            text[i] = Quote /\ \A j \in 1..(i - 1) : text[j] # Quote
    ELSE 0

\* the formatted condition is a condition the database can parse
Parses(text) ==
    \/ QuoteAt(text) = 0
    \/ SubSeq(text, QuoteAt(text) + 1, Len(text)) = OrNotEmpty

\* the truth of the formatted condition  path = '{text}'  on a row with
\* this path
PathEq(text, path) ==
    IF QuoteAt(text) = 0 THEN path = text
    ELSE /\ Parses(text)
         /\ \/ path = SubSeq(text, 1, QuoteAt(text) - 1)
            \/ path # <<>>

\* get_or_create_directory inserting a row at every call
get_or_create_directory_Inserts(db, path) ==
    [db |-> [db EXCEPT !.directory = @ \cup {[id |-> db.next_id, path |-> path]},
                       !.next_id = @ + 1],
     id |-> db.next_id]

\* the path is bound as a parameter: compared as it is
get_or_create_directory(db, path) ==
    LET id == {r.id : r \in {d \in db.directory : d.path = path}}
    IN IF Cardinality(id) = 1
       THEN [db |-> db, id |-> CHOOSE i \in id : TRUE]
       ELSE [db |-> [db EXCEPT !.directory = @ \cup {[id |-> db.next_id, path |-> path]},
                               !.next_id = @ + 1],
             id |-> db.next_id]

\* the paths of the file rows owned by the directory row(s) with this path
get_files_for_directory(db, path) ==
    {r.path : r \in {x \in db.file :
        \E d \in db.directory : d.path = path /\ d.id = x.directory_id}}

\* always Ok(HashMap::new())
get_embeddings_for_directory(db, path) == {}

\* the file rows with this path and the span rows they contain
delete_file(db, path) ==
    [db EXCEPT !.file = {r \in @ : r.path # path},
               !.span = {s \in @ : ~ \E r \in db.file :
                                       r.path = path /\ r.id = s.file_id}]

\* the first statement (DELETE span ...) is built and never sent: the
\* variable is shadowed by the next query before db.query is called
delete_file_and_spans(db, path) ==
    [db EXCEPT !.file = {r \in @ : ~PathEq(path, r.path)}]

\* db.create("file")
create_file_row(db, path) ==
    [db EXCEPT !.file = @ \cup {[id |-> db.next_id, path |-> path,
                                 directory_id |-> NoId]},
               !.next_id = @ + 1]

\* RELATE directory:..->owns->file:..
relate_owns(db, directory_id, file_id) ==
    [db EXCEPT !.file = {IF r.id = file_id
                         THEN [r EXCEPT !.directory_id = directory_id]
                         ELSE r : r \in @}]

\* db.create("span")
create_span_row(db, sha, embedding) ==
    [db EXCEPT !.span = @ \cup {[id |-> db.next_id, file_id |-> NoId,
                                 sha |-> sha, embedding |-> embedding]},
               !.next_id = @ + 1]

\* RELATE file:..->contains->span:..
relate_contains(db, file_id, span_id) ==
    [db EXCEPT !.span = {IF s.id = span_id THEN [s EXCEPT !.file_id = file_id]
                         ELSE s : s \in @}]

\* the statements create_file_and_spans sends for this context
Statements(context) == 5 + 2 * Len(context.embeddings)

\* create_file_and_spans up to and including its statement number k, the
\* later ones not sent (statement k + 1 returned an error). The statements
\* are: DELETE file, DELETE contains, DELETE file, create the file row,
\* RELATE owns, and for each document in turn create the span row, RELATE
\* contains. done.n statements have run; done.file_id is the created file.
RECURSIVE create_file_and_spans_upto(_, _, _, _)
create_file_and_spans_upto(db, context, k, done) ==
    LET i == (done.n - 5) \div 2 + 1
        step(d, file_id) ==
            create_file_and_spans_upto(d, context, k,
                                       [n |-> done.n + 1, file_id |-> file_id])
    IN IF done.n >= k THEN db
       ELSE CASE done.n \in {0, 2} ->
                    step(delete_file_and_spans(db, context.path), done.file_id)
              [] done.n = 1 -> step(db, done.file_id)
              [] done.n = 3 -> step(create_file_row(db, context.path), db.next_id)
              [] done.n = 4 ->
                    step(relate_owns(db, context.directory_id, done.file_id),
                         done.file_id)
              [] done.n >= 5 /\ (done.n - 5) % 2 = 0 ->
                    step(create_span_row(db, Text(context.file, i - 1),
                                         context.embeddings[i]),
                         done.file_id)
              [] OTHER ->
                    step(relate_contains(db, done.file_id, db.next_id - 1),
                         done.file_id)

\* the FileContext of file f as the actor reads it
Context(f, directory_id) ==
    [file |-> f, path |-> PathOf(f), directory_id |-> directory_id,
     embeddings |-> embeddings[f]]

create_file_and_spans_of(db, context) ==
    create_file_and_spans_upto(db, context, Statements(context),
                               [n |-> 0, file_id |-> NoId])

create_file_and_spans(db, f, directory_id) ==
    create_file_and_spans_of(db, Context(f, directory_id))

DirectoryId == CHOOSE i \in {d.id : d \in {x \in store.directory : x.path = Dir}} : TRUE
Written(f) == \E r \in store.file : r.path = PathOf(f)

\* ------------------------------------------------------------------- Init
Init ==
    /\ entries \in UNION {[1..n -> Exts] : n \in 0..NFiles}
    /\ cpc = "start"
    /\ walk_i = 1
    /\ existing_paths = {}
    /\ directory_state = {}
    /\ job_count = 0
    /\ permit = FALSE
    /\ waitq = <<>>
    /\ wst = [w \in Waiters |-> "none"]
    /\ parse_ch = <<>>
    /\ emb_ch = <<>>
    /\ embed_ch = <<>>
    /\ reply = <<>>
    /\ finished = <<>>
    /\ dbq = <<>>
    /\ pc = [t \in Tasks \cup {Worker} |-> "recv"]
    /\ drops = [t \in Tasks |-> <<>>]
    /\ rmw = [t \in Tasks |-> NoRmw]
    /\ documents = [f \in Files |-> 0]
    /\ embeddings = [f \in Files |-> <<>>]
    /\ life = [f \in Files |-> "none"]
    /\ queue = <<>>
    /\ flushq = <<>>
    /\ qj_file = NoFile
    /\ new_values = FALSE
    /\ store = [directory |-> {}, file |-> {}, span |-> {}, next_id |-> 1]
    /\ build = "unknown"
    /\ aborted = FALSE
    /\ running = <<>>
    /\ slots = [r \in Requests |-> NoSlot]
    /\ mutex = [f \in Files |-> "none"]
    /\ wb = 0
    /\ hist = [fires |-> 0, new_job |-> 0, job_dropped |-> 0, embedded |-> <<>>]

pipeline == <<parse_ch, emb_ch, embed_ch, reply, finished, dbq, pc, drops, rmw,
              documents, embeddings, life, queue, flushq, qj_file, new_values>>
notifier == <<permit, waitq, wst>>

\* ----------------------------------------------------------------- facade
\* index_directory up to the start of the walk: the directory row, the
\* DirectoryState, the stored embeddings and the stored paths
IndexDirectory ==
    /\ ~aborted /\ cpc = "start" /\ dbq = <<>> /\ pc["actor"] = "recv"
    /\ LET r == get_or_create_directory(store, Dir)
       IN /\ store' = r.db
          /\ directory_state' = directory_state \cup {Dir}
          /\ existing_paths' = get_files_for_directory(r.db, Dir)
    /\ cpc' = "walking"
    /\ UNCHANGED <<running, slots, mutex, wb,
                   entries, walk_i, job_count, notifier, pipeline, build, aborted, hist>>

\* get_or_create_directory returns Err: index_directory returns it at once
IndexDirectoryErr ==
    /\ ~aborted /\ cpc = "start"
    /\ cpc' = "failed"
    /\ UNCHANGED <<running, slots, mutex, wb,
                   entries, walk_i, existing_paths, directory_state, job_count,
                   notifier, pipeline, store, build, aborted, hist>>

\* get_files_for_directory returns Err after the DirectoryState was inserted
WalkDirectoryErr ==
    /\ ~aborted /\ cpc = "start" /\ dbq = <<>> /\ pc["actor"] = "recv"
    /\ LET r == get_or_create_directory(store, Dir)
       IN /\ store' = r.db
          /\ directory_state' = directory_state \cup {Dir}
    /\ cpc' = "failed"
    /\ UNCHANGED <<running, slots, mutex, wb,
                   entries, walk_i, existing_paths, job_count, notifier,
                   pipeline, build, aborted, hist>>

\* existing_paths.remove leaving the set as it is
remove_Nothing(paths, path) == paths

\* existing_paths.remove(&path)
remove(paths, path) == paths \ {path}

\* one entry of the walk: a file with a registered extension is sent to the
\* parse channel, any other entry is passed over
WalkEntry ==
    /\ ~aborted /\ cpc = "walking" /\ walk_i <= Len(entries)
    /\ IF entries[walk_i] = "rs"
       THEN IF pc["parser"] = "panicked"
            THEN /\ cpc' = "failed"
                 /\ UNCHANGED <<parse_ch, existing_paths, walk_i>>
            ELSE /\ existing_paths' = remove(existing_paths, PathOf(walk_i))
                 /\ parse_ch' = Append(parse_ch, walk_i)
                 /\ walk_i' = walk_i + 1
                 /\ UNCHANGED cpc
       ELSE /\ walk_i' = walk_i + 1
            /\ UNCHANGED <<parse_ch, existing_paths, cpc>>
    /\ UNCHANGED <<running, slots, mutex, wb,
                   entries, directory_state, job_count, notifier, emb_ch,
                   embed_ch, reply, finished, dbq, pc, drops, rmw, documents,
                   embeddings, life, queue, flushq, qj_file, new_values, store,
                   build, aborted, hist>>

RECURSIVE delete_files(_, _)
delete_files(db, paths) ==
    IF paths = {} THEN db
    ELSE LET p == CHOOSE x \in paths : TRUE
         IN delete_files(delete_file(db, p), paths \ {p})

\* the walk is over: stored paths it did not visit are deleted and
\* index_directory returns the notifier
WalkEnd ==
    /\ ~aborted /\ cpc = "walking" /\ walk_i > Len(entries)
    /\ store' = delete_files(store, existing_paths)
    /\ existing_paths' = {}
    /\ cpc' = "returned"
    /\ UNCHANGED <<running, slots, mutex, wb,
                   entries, walk_i, directory_state, job_count, notifier,
                   pipeline, build, aborted, hist>>

\* a task awaits notified() on the returned notifier
Notified(w) ==
    /\ ~aborted /\ cpc = "returned" /\ wst[w] = "none"
    /\ IF permit
       THEN /\ permit' = FALSE
            /\ wst' = [wst EXCEPT ![w] = "resolved"]
            /\ UNCHANGED waitq
       ELSE /\ wst' = [wst EXCEPT ![w] = "waiting"]
            /\ waitq' = Append(waitq, w)
            /\ UNCHANGED permit
    /\ UNCHANGED <<running, slots, mutex, wb,
                   entries, cpc, walk_i, existing_paths, directory_state,
                   job_count, pipeline, store, build, aborted, hist>>

\* ------------------------------------------------------------ parser task
\* a prefill that loses the last slot
Prefill_LosesSlot(embs, f, map) == SubSeq(embs, 1, Len(embs) - 1)

\* fill the slots whose sha is a key of the stored-embeddings map
Prefill(embs, f, map) ==
    [i \in 1..Len(embs) |->
        IF Text(f, i - 1) \in DOMAIN map THEN map[Text(f, i - 1)] ELSE embs[i]]

existing_embeddings == [sha \in get_embeddings_for_directory(store, Dir) |-> Empty]

\* a parser task that counts the file before it looks at the parse result
ParseFail_Counts ==
    /\ ~aborted /\ pc["parser"] = "recv" /\ Idle("parser") /\ parse_ch # <<>>
    /\ parse_ch' = Tail(parse_ch)
    /\ life' = [life EXCEPT ![Head(parse_ch)] = "failed"]
    /\ job_count' = job_count + 1
    /\ UNCHANGED <<running, slots, mutex, wb,
                   entries, cpc, walk_i, existing_paths, directory_state,
                   notifier, emb_ch, embed_ch, reply, finished, dbq,
                   pc, drops, rmw, documents, embeddings, queue, flushq,
                   qj_file, new_values, store, build, aborted, hist>>

\* parse_file returns Err: the file is passed over
ParseFail ==
    /\ ~aborted /\ pc["parser"] = "recv" /\ Idle("parser") /\ parse_ch # <<>>
    /\ parse_ch' = Tail(parse_ch)
    /\ life' = [life EXCEPT ![Head(parse_ch)] = "failed"]
    /\ UNCHANGED <<running, slots, mutex, wb,
                   entries, cpc, walk_i, existing_paths, directory_state,
                   job_count, notifier, emb_ch, embed_ch, reply, finished, dbq,
                   pc, drops, rmw, documents, embeddings, queue, flushq,
                   qj_file, new_values, store, build, aborted, hist>>

\* parse_file returns a FileContext of n documents, all slots empty, and
\* new_job reads the counter
ParseOk(n) ==
    /\ ~aborted /\ pc["parser"] = "recv" /\ Idle("parser") /\ parse_ch # <<>>
    /\ LET f == Head(parse_ch)
       IN /\ documents' = [documents EXCEPT ![f] = n]
          /\ embeddings' = [embeddings EXCEPT ![f] = [i \in 1..n |-> Empty]]
          /\ life' = [life EXCEPT ![f] = "created"]
          /\ rmw' = [rmw EXCEPT !["parser"] =
                        [op |-> "new_job", file |-> f, cur |-> job_count]]
    /\ parse_ch' = Tail(parse_ch)
    /\ UNCHANGED <<running, slots, mutex, wb,
                   entries, cpc, walk_i, existing_paths, directory_state,
                   job_count, notifier, emb_ch, embed_ch, reply, finished, dbq,
                   pc, drops, queue, flushq, qj_file, new_values, store, build,
                   aborted, hist>>

\* new_job adding two
new_job_write_AddsTwo(cur) == cur + 2

new_job_write(cur) == cur + 1

\* new_job writes the counter; the cached embeddings are filled in and the
\* file is sent to the embedding channel
NewJobWrite ==
    /\ ~aborted /\ rmw["parser"].op = "new_job"
    /\ LET f == rmw["parser"].file
       IN /\ job_count' = new_job_write(rmw["parser"].cur)
          /\ life' = [life EXCEPT ![f] = "live"]
          /\ embeddings' = [embeddings EXCEPT ![f] = Prefill(@, f, existing_embeddings)]
          /\ IF pc["queue"] = "panicked"
             THEN /\ drops' = [drops EXCEPT !["parser"] = <<f>>]
                  /\ UNCHANGED emb_ch
             ELSE /\ emb_ch' = Append(emb_ch, f)
                  /\ UNCHANGED drops
    /\ rmw' = [rmw EXCEPT !["parser"] = NoRmw]
    /\ hist' = [hist EXCEPT !.new_job = @ + 1]
    /\ UNCHANGED <<running, slots, mutex, wb,
                   entries, cpc, walk_i, existing_paths, directory_state,
                   notifier, parse_ch, embed_ch, reply, finished, dbq, pc,
                   documents, queue, flushq, qj_file, new_values, store, build,
                   aborted>>

\* ------------------------------------------------- Drop for FileContext
\* a task releases one Arc; the last reference runs job_dropped, which
\* first reads the counter
DropRead(t) ==
    /\ ~aborted /\ drops[t] # <<>> /\ rmw[t] = NoRmw
    /\ drops' = [drops EXCEPT ![t] = Tail(@)]
    /\ IF RefCount(Head(drops[t])) = 1
       THEN rmw' = [rmw EXCEPT ![t] =
                       [op |-> "job_dropped", file |-> Head(drops[t]), cur |-> job_count]]
       ELSE UNCHANGED rmw
    /\ UNCHANGED <<running, slots, mutex, wb,
                   entries, cpc, walk_i, existing_paths, directory_state,
                   job_count, notifier, parse_ch, emb_ch, embed_ch, reply,
                   finished, dbq, pc, documents, embeddings, life, queue,
                   flushq, qj_file, new_values, store, build, aborted, hist>>

\* what a panicking task still owns and releases while it unwinds
Owned(t) ==
    CASE t = "queue" -> FragFiles(flushq) \o (IF qj_file = NoFile THEN <<>> ELSE <<qj_file>>)
                        \o FragFiles(queue) \o emb_ch
      [] t = "actor" -> dbq
      [] t = "pers" -> finished
      [] OTHER -> <<>>

\* the task t panics: its future is dropped with everything it owns
Unwind(t, first) ==
    /\ pc' = [pc EXCEPT ![t] = "panicked",
                        !["pers"] = IF t = "actor" /\ pc["pers"] = "await" THEN "recv"
                                    ELSE IF t = "pers" THEN "panicked" ELSE @]
    /\ drops' = [drops EXCEPT ![t] = first \o @ \o Owned(t)]
    /\ IF t = "queue"
       THEN /\ flushq' = <<>> /\ qj_file' = NoFile /\ queue' = <<>>
            /\ emb_ch' = <<>> /\ embed_ch' = <<>> /\ reply' = <<>>
       ELSE UNCHANGED <<flushq, qj_file, queue, emb_ch, embed_ch, reply>>
    /\ dbq' = IF t = "actor" THEN <<>> ELSE dbq
    /\ finished' = IF t = "pers" THEN <<>> ELSE finished
    /\ parse_ch' = IF t = "parser" THEN <<>> ELSE parse_ch

job_dropped_write(cur) == cur - 1

\* job_dropped writes the counter and calls notify_one when it wrote zero.
\* On a counter of 0 the subtraction overflows: it wraps where overflow
\* checks are off and panics where they are on.
DropWrite(t) ==
    /\ ~aborted /\ rmw[t].op = "job_dropped"
    /\ rmw' = [rmw EXCEPT ![t] = NoRmw]
    /\ life' = [life EXCEPT ![rmw[t].file] = "destroyed"]
    /\ \/ /\ rmw[t].cur # 0 \/ build \in {"unknown", "release"}
          /\ build' = IF rmw[t].cur = 0 THEN "release" ELSE build
          /\ job_count' = job_dropped_write(rmw[t].cur)
          /\ IF job_dropped_write(rmw[t].cur) = 0
             THEN /\ notify_one
                  /\ hist' = [hist EXCEPT !.job_dropped = @ + 1, !.fires = @ + 1]
             ELSE /\ UNCHANGED notifier
                  /\ hist' = [hist EXCEPT !.job_dropped = @ + 1]
          /\ UNCHANGED <<pc, drops, flushq, qj_file, queue, emb_ch, embed_ch,
                         reply, dbq, finished, parse_ch, aborted>>
       \/ /\ rmw[t].cur = 0 /\ build \in {"unknown", "debug"}
          /\ build' = "debug"
          /\ IF pc[t] = "panicked"
             THEN /\ aborted' = TRUE
                  /\ UNCHANGED <<pc, drops, flushq, qj_file, queue, emb_ch,
                                 embed_ch, reply, dbq, finished, parse_ch>>
             ELSE /\ Unwind(t, <<>>)
                  /\ UNCHANGED aborted
          /\ UNCHANGED <<job_count, notifier, hist>>
    /\ UNCHANGED <<running, slots, mutex, wb,
                   entries, cpc, walk_i, existing_paths, directory_state,
                   documents, embeddings, new_values, store>>

\* -------------------------------------------------------- EmbeddingQueue
Fragment(f, s, e) == [file |-> f, start_idx |-> s, end_idx |-> e]

queue_size(q) == SumSeq([i \in 1..Len(q) |-> (q[i].end_idx - q[i].start_idx) + 1])

\* the texts flush_queue collects: documents[start_idx .. end_idx) of each fragment
RECURSIVE Spans(_)
Spans(q) ==
    IF q = <<>> THEN <<>>
    ELSE LET fr == Head(q)
         IN [k \in 1..(fr.end_idx - fr.start_idx) |-> Text(fr.file, fr.start_idx + k - 1)]
            \o Spans(Tail(q))

\* the loop of queue_job over the empty slots, up to the iteration in which
\* size reaches BATCH_SPANS (flush = TRUE: the fragment is pushed and
\* flush_queue is about to run) or to the end of the ids
RECURSIVE QueueLoop(_)
QueueLoop(st) ==
    IF st.ids = <<>> THEN st
    ELSE LET idx == Head(st.ids)
             size == st.size + 1
         IN IF size = BATCH_SPANS
            THEN [st EXCEPT !.size = size,
                            !.queue = Append(@, Fragment(st.file, st.current_idx, idx)),
                            !.current_idx = idx,
                            !.flush = TRUE]
            ELSE QueueLoop([st EXCEPT !.ids = Tail(@), !.size = size, !.last_idx = idx])

\* the rest of the loop after flush_queue returned, on the emptied queue
AfterFlush(st) ==
    QueueLoop([st EXCEPT !.ids = Tail(@), !.last_idx = Head(st.ids),
                         !.queue = <<>>, !.flush = FALSE])

\* the remainder pushed whatever its indices
Remainder_Always(st) ==
    Append(st.queue, Fragment(st.file, st.current_idx, st.last_idx))

\* the fragment pushed after the loop
Remainder(st) ==
    IF st.current_idx # st.last_idx
    THEN Append(st.queue, Fragment(st.file, st.current_idx, st.last_idx))
    ELSE st.queue

\* the write-back of flush_queue: fragment number k receives vector number k
\* in all of its slots start_idx ..= end_idx, and a file that is complete
\* after its fragment is published
RECURSIVE Scatter(_, _, _, _, _)
Scatter(q, k, embs, published, vectors) ==
    IF k > Len(q) THEN [embeddings |-> embs, published |-> published, panicked |-> FALSE]
    ELSE LET fr == q[k]
         IN IF fr.start_idx <= fr.end_idx
               /\ (k > Len(vectors) \/ fr.end_idx + 1 > Len(embs[fr.file]))
            THEN [embeddings |-> embs, published |-> published, panicked |-> TRUE]
            ELSE LET e == [embs EXCEPT ![fr.file] =
                              [i \in 1..Len(@) |->
                                  IF i - 1 >= fr.start_idx /\ i - 1 <= fr.end_idx
                                  THEN vectors[k] ELSE @[i]]]
                 IN Scatter(q, k + 1, e,
                            IF complete(e[fr.file]) THEN Append(published, fr.file)
                            ELSE published,
                            vectors)

\* the batching task receives Embed{file_context} and runs queue_job
QueueJobEmbed ==
    /\ ~aborted /\ pc["queue"] = "recv" /\ Idle("queue") /\ emb_ch # <<>>
    /\ LET f == Head(emb_ch)
           st == QueueLoop([ids |-> document_ids(f), size |-> queue_size(queue),
                            current_idx |-> 0, last_idx |-> 0, queue |-> queue,
                            file |-> f, flush |-> FALSE])
       IN IF st.flush
          THEN /\ flushq' = st.queue
               /\ embed_ch' = Append(embed_ch, Spans(st.queue))
               /\ queue' = Remainder(AfterFlush(st))
               /\ qj_file' = f
               /\ pc' = [pc EXCEPT !["queue"] = "await_embed"]
               /\ UNCHANGED drops
          ELSE /\ queue' = Remainder(st)
               /\ drops' = [drops EXCEPT !["queue"] = <<f>>]
               /\ UNCHANGED <<flushq, embed_ch, qj_file, pc>>
    /\ emb_ch' = Tail(emb_ch)
    /\ new_values' = TRUE
    /\ UNCHANGED <<running, slots, mutex, wb,
                   entries, cpc, walk_i, existing_paths, directory_state,
                   job_count, notifier, parse_ch, reply, finished, dbq, rmw,
                   documents, embeddings, life, store, build, aborted, hist>>

\* every embedding_sender is dropped: the parser task, its only owner, ended
EmbeddingClosed == pc["parser"] \in {"exited", "panicked"}

\* the receive times out after messages were forwarded: queue_job(Flush);
\* a receive on a closed channel returns at once and never times out
QueueJobFlush ==
    /\ ~aborted /\ pc["queue"] = "recv" /\ Idle("queue") /\ emb_ch = <<>>
    /\ ~EmbeddingClosed
    /\ new_values
    /\ flushq' = queue
    /\ queue' = <<>>
    /\ embed_ch' = Append(embed_ch, Spans(queue))
    /\ pc' = [pc EXCEPT !["queue"] = "await_embed"]
    /\ new_values' = FALSE
    /\ UNCHANGED <<running, slots, mutex, wb,
                   entries, cpc, walk_i, existing_paths, directory_state,
                   job_count, notifier, parse_ch, emb_ch, reply, finished, dbq,
                   drops, rmw, documents, embeddings, life, qj_file, store,
                   build, aborted, hist>>

\* the provider: one vector per text, in order
embed(spans) == [i \in 1..Len(spans) |-> Embed(spans[i])]

\* the embed worker answers one request
EmbedWorker ==
    /\ ~aborted /\ embed_ch # <<>> /\ pc[Worker] = "recv"
    /\ reply' = <<embed(Head(embed_ch))>>
    /\ embed_ch' = Tail(embed_ch)
    /\ hist' = [hist EXCEPT !.embedded = @ \o Head(embed_ch)]
    /\ UNCHANGED <<running, slots, mutex, wb,
                   entries, cpc, walk_i, existing_paths, directory_state,
                   job_count, notifier, parse_ch, emb_ch, finished, dbq, pc,
                   drops, rmw, documents, embeddings, life, queue, flushq,
                   qj_file, new_values, store, build, aborted>>

\* flush_queue receives the vectors, writes them back, publishes the
\* complete files and returns, which drops its local queue; queue_job then
\* finishes its loop and drops its file_context
FlushWriteBack ==
    /\ ~aborted /\ pc["queue"] = "await_embed" /\ reply # <<>>
    /\ LET r == Scatter(flushq, 1, embeddings, <<>>, reply[1])
           local == FragFiles(flushq) \o (IF qj_file = NoFile THEN <<>> ELSE <<qj_file>>)
       IN /\ embeddings' = r.embeddings
          /\ IF r.panicked
             THEN /\ Unwind("queue", <<>>)
             ELSE /\ pc' = [pc EXCEPT !["queue"] = "recv"]
                  /\ drops' = [drops EXCEPT !["queue"] = local]
                  /\ finished' = IF pc["pers"] = "panicked" THEN finished
                                 ELSE finished \o r.published
                  /\ flushq' = <<>>
                  /\ qj_file' = NoFile
                  /\ reply' = <<>>
                  /\ UNCHANGED <<queue, emb_ch, embed_ch, dbq, parse_ch>>
    /\ UNCHANGED <<running, slots, mutex, wb,
                   entries, cpc, walk_i, existing_paths, directory_state,
                   job_count, notifier, rmw, documents, life, new_values,
                   store, build, aborted, hist>>

\* a failing worker that still answers the request
EmbedWorkerPanic_Answers ==
    /\ ~aborted /\ embed_ch # <<>> /\ pc[Worker] = "recv"
    /\ pc' = [pc EXCEPT ![Worker] = "panicked"]
    /\ reply' = <<embed(Head(embed_ch))>>
    /\ embed_ch' = <<>>
    /\ UNCHANGED <<running, slots, mutex, wb,
                   entries, cpc, walk_i, existing_paths, directory_state,
                   job_count, notifier, parse_ch, emb_ch, finished, dbq,
                   drops, rmw, documents, embeddings, life, queue, flushq,
                   qj_file, new_values, store, build, aborted, hist>>

\* provider.embed(spans) panics: the embed worker task ends, and the
\* receiver of embed_tx is dropped with the request and its oneshot sender
EmbedWorkerPanic ==
    /\ ~aborted /\ embed_ch # <<>> /\ pc[Worker] = "recv"
    /\ pc' = [pc EXCEPT ![Worker] = "panicked"]
    /\ embed_ch' = <<>>
    /\ UNCHANGED <<running, slots, mutex, wb,
                   entries, cpc, walk_i, existing_paths, directory_state,
                   job_count, notifier, parse_ch, emb_ch, reply, finished, dbq,
                   drops, rmw, documents, embeddings, life, queue, flushq,
                   qj_file, new_values, store, build, aborted, hist>>

\* flush_queue's receiver.await is Err, because the oneshot sender was
\* dropped by the dead worker or with the failed send to it: nothing is
\* written back or published, flush_queue returns and drops its local
\* queue, and queue_job finishes its loop and drops its file_context
FlushRecvErr ==
    /\ ~aborted /\ pc["queue"] = "await_embed" /\ pc[Worker] = "panicked"
    /\ pc' = [pc EXCEPT !["queue"] = "recv"]
    /\ drops' = [drops EXCEPT !["queue"] =
                    FragFiles(flushq) \o (IF qj_file = NoFile THEN <<>> ELSE <<qj_file>>)]
    /\ flushq' = <<>>
    /\ qj_file' = NoFile
    /\ embed_ch' = <<>>
    /\ UNCHANGED <<running, slots, mutex, wb,
                   entries, cpc, walk_i, existing_paths, directory_state,
                   job_count, notifier, parse_ch, emb_ch, reply, finished, dbq,
                   rmw, documents, embeddings, life, queue, new_values, store,
                   build, aborted, hist>>

\* ------------------------------------------------------- persistence task
\* a finished file is received and sent to the database actor
PersistFinished ==
    /\ ~aborted /\ pc["pers"] = "recv" /\ Idle("pers") /\ finished # <<>>
    /\ finished' = Tail(finished)
    /\ IF pc["actor"] = "panicked"
       THEN /\ drops' = [drops EXCEPT !["pers"] = <<Head(finished)>>]
            /\ UNCHANGED <<dbq, pc>>
       ELSE /\ dbq' = Append(dbq, Head(finished))
            /\ pc' = [pc EXCEPT !["pers"] = "await"]
            /\ UNCHANGED drops
    /\ UNCHANGED <<running, slots, mutex, wb,
                   entries, cpc, walk_i, existing_paths, directory_state,
                   job_count, notifier, parse_ch, emb_ch, embed_ch, reply, rmw,
                   documents, embeddings, life, queue, flushq, qj_file,
                   new_values, store, build, aborted, hist>>

\* the actor runs CreateFileAndSpans, replies and drops the job's context
CreateFileAndSpans ==
    /\ ~aborted /\ pc["actor"] = "recv" /\ Idle("actor") /\ dbq # <<>>
    /\ mutex[Head(dbq)] = "none"
    /\ store' = create_file_and_spans(store, Head(dbq), DirectoryId)
    /\ dbq' = Tail(dbq)
    /\ drops' = [drops EXCEPT !["actor"] = <<Head(dbq)>>]
    /\ pc' = [pc EXCEPT !["pers"] = "recv"]
    /\ UNCHANGED <<running, slots, mutex, wb,
                   entries, cpc, walk_i, existing_paths, directory_state,
                   job_count, notifier, parse_ch, emb_ch, embed_ch, reply,
                   finished, rmw, documents, embeddings, life, queue, flushq,
                   qj_file, new_values, build, aborted, hist>>

\* ------------------------------------------------------------------- Next
Next ==
    \/ IndexDirectory
    \/ IndexDirectoryErr
    \/ WalkDirectoryErr
    \/ WalkEntry
    \/ WalkEnd
    \/ \E w \in Waiters : Notified(w)
    \/ ParseFail
    \/ \E n \in 0..MaxSpans : ParseOk(n)
    \/ NewJobWrite
    \/ \E t \in Tasks : DropRead(t)
    \/ \E t \in Tasks : DropWrite(t)
    \/ QueueJobEmbed
    \/ QueueJobFlush
    \/ EmbedWorker
    \/ FlushWriteBack
    \/ PersistFinished
    \/ CreateFileAndSpans

Spec == Init /\ [][Next]_vars

\* ------------------------------------------------- runs with larger files
\* the same pipeline with files whose documents can add up to BATCH_SPANS
BatchSpans == (BATCH_SPANS - MaxBatchSpans)..MaxBatchSpans

BatchNext ==
    \/ IndexDirectory
    \/ IndexDirectoryErr
    \/ WalkDirectoryErr
    \/ WalkEntry
    \/ WalkEnd
    \/ \E w \in Waiters : Notified(w)
    \/ ParseFail
    \/ \E n \in BatchSpans : ParseOk(n)
    \/ NewJobWrite
    \/ \E t \in Tasks : DropRead(t)
    \/ \E t \in Tasks : DropWrite(t)
    \/ QueueJobEmbed
    \/ QueueJobFlush
    \/ EmbedWorker
    \/ FlushWriteBack
    \/ PersistFinished
    \/ CreateFileAndSpans

BatchSpec == Init /\ [][BatchNext]_vars

\* ------------------------------------------- runs with files over a batch
\* the same pipeline with files of one document less than BATCH_SPANS and of
\* more documents than BATCH_SPANS
LargeSpans == {BATCH_SPANS - 1, BATCH_SPANS + 2}

LargeNext ==
    \/ IndexDirectory
    \/ IndexDirectoryErr
    \/ WalkDirectoryErr
    \/ WalkEntry
    \/ WalkEnd
    \/ \E w \in Waiters : Notified(w)
    \/ ParseFail
    \/ \E n \in LargeSpans : ParseOk(n)
    \/ NewJobWrite
    \/ \E t \in Tasks : DropRead(t)
    \/ \E t \in Tasks : DropWrite(t)
    \/ QueueJobEmbed
    \/ QueueJobFlush
    \/ EmbedWorker
    \/ FlushWriteBack
    \/ PersistFinished
    \/ CreateFileAndSpans

LargeSpec == Init /\ [][LargeNext]_vars

\* ------------------------------------- the write-back, fragment by fragment
\* flush_queue's write-back loop as the steps between its awaits, with the
\* Mutex of every FileContext and a finished-files channel of bounded
\* capacity.
\* the guard `unlocked` is dropped at the end of the loop iteration
guard_dropped_Leaks(m, f) == m

guard_dropped(m, f) == [m EXCEPT ![f] = "none"]

\* one iteration of the write-back loop up to its await: the fragment's
\* FileContext is locked and its slots are written; a file that is now
\* complete is about to be sent, with the guard still alive
WbFragment ==
    /\ ~aborted /\ pc["queue"] = "await_embed" /\ reply # <<>>
    /\ wb < Len(flushq)
    /\ mutex[flushq[wb + 1].file] = "none"
    /\ LET f == flushq[wb + 1].file
           r == Scatter(SubSeq(flushq, 1, wb + 1), wb + 1, embeddings, <<>>, reply[1])
       IN /\ embeddings' = r.embeddings
          /\ IF r.panicked
             THEN /\ Unwind("queue", <<>>)
                  /\ wb' = 0
                  /\ UNCHANGED mutex
             ELSE /\ IF r.published # <<>>
                     THEN /\ pc' = [pc EXCEPT !["queue"] = "send_finished"]
                          /\ mutex' = [mutex EXCEPT ![f] = "queue"]
                          /\ UNCHANGED wb
                     ELSE /\ wb' = wb + 1
                          /\ UNCHANGED <<pc, mutex>>
                  /\ UNCHANGED <<drops, flushq, qj_file, queue, emb_ch, embed_ch,
                                 reply, dbq, finished, parse_ch>>
    /\ UNCHANGED <<running, slots,
                   entries, cpc, walk_i, existing_paths, directory_state,
                   job_count, notifier, rmw, documents, life, new_values,
                   store, build, aborted, hist>>

\* finished_files_tx.send(..).await returns: the channel had room, or its
\* receiver is gone and the send fails at once; the iteration ends and
\* drops the guard
WbSend ==
    /\ ~aborted /\ pc["queue"] = "send_finished"
    /\ LET f == flushq[wb + 1].file
       IN /\ IF pc["pers"] \in {"panicked", "exited"}
             THEN UNCHANGED finished
             ELSE /\ Len(finished) < FinishedCapacity
                  /\ finished' = Append(finished, f)
          /\ mutex' = guard_dropped(mutex, f)
    /\ wb' = wb + 1
    /\ pc' = [pc EXCEPT !["queue"] = "await_embed"]
    /\ UNCHANGED <<running, slots,
                   entries, cpc, walk_i, existing_paths, directory_state,
                   job_count, notifier, parse_ch, emb_ch, embed_ch, reply, dbq,
                   drops, rmw, documents, embeddings, life, queue, flushq,
                   qj_file, new_values, store, build, aborted, hist>>

\* the loop is over: flush_queue returns, which drops its local queue, and
\* queue_job finishes its loop and drops its file_context
WbDone ==
    /\ ~aborted /\ pc["queue"] = "await_embed" /\ reply # <<>>
    /\ wb = Len(flushq)
    /\ pc' = [pc EXCEPT !["queue"] = "recv"]
    /\ drops' = [drops EXCEPT !["queue"] =
                    FragFiles(flushq) \o (IF qj_file = NoFile THEN <<>> ELSE <<qj_file>>)]
    /\ flushq' = <<>>
    /\ qj_file' = NoFile
    /\ reply' = <<>>
    /\ wb' = 0
    /\ UNCHANGED <<running, slots, mutex,
                   entries, cpc, walk_i, existing_paths, directory_state,
                   job_count, notifier, parse_ch, emb_ch, embed_ch, finished,
                   dbq, rmw, documents, embeddings, life, queue, new_values,
                   store, build, aborted, hist>>

LockNext ==
    \/ IndexDirectory
    \/ IndexDirectoryErr
    \/ WalkDirectoryErr
    \/ WalkEntry
    \/ WalkEnd
    \/ \E w \in Waiters : Notified(w)
    \/ ParseFail
    \/ \E n \in 0..MaxSpans : ParseOk(n)
    \/ NewJobWrite
    \/ \E t \in Tasks : DropRead(t)
    \/ \E t \in Tasks : DropWrite(t)
    \/ QueueJobEmbed
    \/ QueueJobFlush
    \/ EmbedWorker
    \/ WbFragment
    \/ WbSend
    \/ WbDone
    \/ PersistFinished
    \/ CreateFileAndSpans

LockSpec == Init /\ [][LockNext]_vars

\* the batching task waits in its send for room on the finished-files channel
SendBlocked ==
    /\ pc["queue"] = "send_finished" /\ pc["pers"] \notin {"panicked", "exited"}
    /\ Len(finished) >= FinishedCapacity

\* the database actor waits for the Mutex of the file it is to write
ActorBlocked ==
    /\ pc["actor"] = "recv" /\ Idle("actor") /\ dbq # <<>>
    /\ mutex[Head(dbq)] # "none"

\* ------------------------------------------ the batching task on its own
\* The batching task fed with up to MaxJobs files of chosen sizes, one after
\* the other, with or without a timeout between them; nothing consumes the
\* finished-files channel.
QueueSpans == {1, 2, 3, BATCH_SPANS + 1}

QueueInit == Init /\ entries = <<>>

\* the files parsed so far are 1 .. NextFile - 1
NextFile == Cardinality({f \in DOMAIN life : life[f] # "none"}) + 1

\* the parser task parses the next file to n documents, counts it and sends
\* it as an Embed job; it does so once the batching task took the last one
ParserSend(n) ==
    /\ ~aborted /\ pc["queue"] # "panicked" /\ emb_ch = <<>>
    /\ NextFile <= MaxJobs
    /\ documents' = (NextFile :> n) @@ documents
    /\ embeddings' = (NextFile :> [i \in 1..n |-> Empty]) @@ embeddings
    /\ life' = (NextFile :> "live") @@ life
    /\ job_count' = new_job_write(job_count)
    /\ hist' = [hist EXCEPT !.new_job = @ + 1]
    /\ emb_ch' = <<NextFile>>
    /\ UNCHANGED <<running, slots, mutex, wb,
                   entries, cpc, walk_i, existing_paths, directory_state,
                   notifier, parse_ch, embed_ch, reply, finished, dbq, pc,
                   drops, rmw, queue, flushq, qj_file, new_values, store,
                   build, aborted>>

QueueNext ==
    \/ \E n \in QueueSpans : ParserSend(n)
    \/ QueueJobEmbed
    \/ QueueJobFlush
    \/ EmbedWorker
    \/ FlushWriteBack
    \/ \E t \in Tasks : DropRead(t)
    \/ \E t \in Tasks : DropWrite(t)

QueueSpec == QueueInit /\ [][QueueNext]_vars

\* the indices of fragment fr are indices of the documents and of the slots
\* of its file
InRange(fr) ==
    /\ 0 <= fr.start_idx /\ fr.start_idx <= fr.end_idx
    /\ fr.end_idx < documents[fr.file]
    /\ Len(embeddings[fr.file]) = documents[fr.file]

\* ---------------------------------------------- runs with a failing store
\* statement number k + 1 of create_file_and_spans returns an error: the
\* first k statements stay done, the actor replies Err and drops the job's
\* context, and the persistence task logs the error and receives again
CreateFileAndSpansFail(k) ==
    /\ ~aborted /\ pc["actor"] = "recv" /\ Idle("actor") /\ dbq # <<>>
    /\ k < Statements(Context(Head(dbq), DirectoryId))
    /\ store' = create_file_and_spans_upto(store, Context(Head(dbq), DirectoryId), k,
                                           [n |-> 0, file_id |-> NoId])
    /\ dbq' = Tail(dbq)
    /\ drops' = [drops EXCEPT !["actor"] = <<Head(dbq)>>]
    /\ pc' = [pc EXCEPT !["pers"] = "recv"]
    /\ UNCHANGED <<running, slots, mutex, wb,
                   entries, cpc, walk_i, existing_paths, directory_state,
                   job_count, notifier, parse_ch, emb_ch, embed_ch, reply,
                   finished, rmw, documents, embeddings, life, queue, flushq,
                   qj_file, new_values, build, aborted, hist>>

WriteErrNext ==
    \/ IndexDirectory
    \/ IndexDirectoryErr
    \/ WalkDirectoryErr
    \/ WalkEntry
    \/ WalkEnd
    \/ \E w \in Waiters : Notified(w)
    \/ ParseFail
    \/ \E n \in 0..MaxSpans : ParseOk(n)
    \/ NewJobWrite
    \/ \E t \in Tasks : DropRead(t)
    \/ \E t \in Tasks : DropWrite(t)
    \/ QueueJobEmbed
    \/ QueueJobFlush
    \/ EmbedWorker
    \/ FlushWriteBack
    \/ PersistFinished
    \/ CreateFileAndSpans
    \/ \E k \in 0..(4 + 2 * MaxSpans) : CreateFileAndSpansFail(k)

WriteErrSpec == Init /\ [][WriteErrNext]_vars

\* the step is the actor answering the write of file f with an error
FailedWrite(f) ==
    /\ pc["actor"] = "recv" /\ dbq # <<>> /\ Head(dbq) = f
    /\ dbq' = Tail(dbq) /\ pc'["actor"] = "recv"
    /\ store' # create_file_and_spans(store, f, DirectoryId)

\* ------------------------------------------- runs with a failing provider
\* the pipeline of BatchSpec with an embedding provider that can fail
EmbedErrNext ==
    \/ IndexDirectory
    \/ IndexDirectoryErr
    \/ WalkDirectoryErr
    \/ WalkEntry
    \/ WalkEnd
    \/ \E w \in Waiters : Notified(w)
    \/ ParseFail
    \/ \E n \in BatchSpans : ParseOk(n)
    \/ NewJobWrite
    \/ \E t \in Tasks : DropRead(t)
    \/ \E t \in Tasks : DropWrite(t)
    \/ QueueJobEmbed
    \/ QueueJobFlush
    \/ EmbedWorker
    \/ EmbedWorkerPanic
    \/ FlushWriteBack
    \/ FlushRecvErr
    \/ PersistFinished
    \/ CreateFileAndSpans

EmbedErrSpec == Init /\ [][EmbedErrNext]_vars

\* --------------------------------------------- dropping the SemanticIndex
\* the owner drops the SemanticIndex between two calls: its parse_sender,
\* the only sender of the parse channel, is dropped with it
DropSemanticIndex ==
    /\ ~aborted /\ cpc \in {"start", "returned", "failed"}
    /\ cpc' = "dropped"
    /\ UNCHANGED <<running, slots, mutex, wb,
                   entries, walk_i, existing_paths, directory_state, job_count,
                   notifier, pipeline, store, build, aborted, hist>>

ParseClosed == cpc = "dropped"

\* the parser task receives None from the closed, drained parse channel: its
\* while loop ends and its embedding_sender is dropped
ParserExit ==
    /\ ~aborted /\ pc["parser"] = "recv" /\ Idle("parser")
    /\ ParseClosed /\ parse_ch = <<>>
    /\ pc' = [pc EXCEPT !["parser"] = "exited"]
    /\ UNCHANGED <<running, slots, mutex, wb,
                   entries, cpc, walk_i, existing_paths, directory_state,
                   job_count, notifier, parse_ch, emb_ch, embed_ch, reply,
                   finished, dbq, drops, rmw, documents, embeddings, life,
                   queue, flushq, qj_file, new_values, store, build, aborted,
                   hist>>

\* the batching task receives None from the closed, drained embedding
\* channel inside the timeout: Ok(None) sets new_values, queues nothing, and
\* the loop goes round again
BatchRecvClosed ==
    /\ ~aborted /\ pc["queue"] = "recv" /\ Idle("queue")
    /\ EmbeddingClosed /\ emb_ch = <<>>
    /\ new_values' = TRUE
    /\ UNCHANGED <<running, slots, mutex, wb,
                   entries, cpc, walk_i, existing_paths, directory_state,
                   job_count, notifier, parse_ch, emb_ch, embed_ch, reply,
                   finished, dbq, pc, drops, rmw, documents, embeddings, life,
                   queue, flushq, qj_file, store, build, aborted, hist>>

\* every finished_files_tx is dropped: the batching task, whose
\* EmbeddingQueue owns it, ended
FinishedClosed == pc["queue"] \in {"exited", "panicked"}

\* the persistence task receives None from the closed, drained
\* finished-files channel and its while loop ends
PersistExit ==
    /\ ~aborted /\ pc["pers"] = "recv" /\ Idle("pers")
    /\ FinishedClosed /\ finished = <<>>
    /\ pc' = [pc EXCEPT !["pers"] = "exited"]
    /\ UNCHANGED <<running, slots, mutex, wb,
                   entries, cpc, walk_i, existing_paths, directory_state,
                   job_count, notifier, parse_ch, emb_ch, embed_ch, reply,
                   finished, dbq, drops, rmw, documents, embeddings, life,
                   queue, flushq, qj_file, new_values, store, build, aborted,
                   hist>>

ShutdownNext ==
    \/ IndexDirectory
    \/ IndexDirectoryErr
    \/ WalkDirectoryErr
    \/ WalkEntry
    \/ WalkEnd
    \/ \E w \in Waiters : Notified(w)
    \/ ParseFail
    \/ \E n \in 0..MaxSpans : ParseOk(n)
    \/ NewJobWrite
    \/ \E t \in Tasks : DropRead(t)
    \/ \E t \in Tasks : DropWrite(t)
    \/ QueueJobEmbed
    \/ QueueJobFlush
    \/ EmbedWorker
    \/ FlushWriteBack
    \/ PersistFinished
    \/ CreateFileAndSpans
    \/ DropSemanticIndex
    \/ ParserExit
    \/ BatchRecvClosed
    \/ PersistExit

ShutdownSpec == Init /\ [][ShutdownNext]_vars

\* ------------------------------------------------------------ definitions
\* the files the walk of the directory submits for parsing
Indexable == {f \in 1..Len(entries) : entries[f] = "rs"}

\* file f waits in a channel or in the embedding queue
InFlight(f) ==
    \/ Count(parse_ch, f) > 0
    \/ Count(emb_ch, f) > 0
    \/ Count(FragFiles(queue), f) > 0
    \/ Count(FragFiles(flushq), f) > 0
    \/ Count(finished, f) > 0
    \/ Count(dbq, f) > 0

\* index_directory has returned Ok and the caller has done nothing since
JustReturned == cpc = "returned" /\ \A w \in Waiters : wst[w] = "none"

\* no new_job or job_dropped call is between its read and its write
NoCallInProgress == \A t \in Tasks : rmw[t] = NoRmw

\* the outstanding value an observer reads with get_status(dir)
Outstanding == get_status(Dir).jobs_outstanding

\* a <= b as usize values (a negative representative is above every other)
ULe(a, b) == IF (a < 0) = (b < 0) THEN a <= b ELSE b < 0

\* every text of file f, in document order
AllTexts(f) == [k \in 1..documents[f] |-> Text(f, k - 1)]

\* the queue holds all of one file g and nothing else, the next job is a
\* file f, no slot of either is filled, and their documents add up to
\* BATCH_SPANS
BoundaryJob(g, f) ==
    /\ pc["queue"] = "recv" /\ Idle("queue")
    /\ emb_ch # <<>> /\ Head(emb_ch) = f /\ g # f
    /\ queue = <<Fragment(g, 0, documents[g] - 1)>>
    /\ documents[g] + documents[f] = BATCH_SPANS
    /\ \A i \in 1..documents[g] : embeddings[g][i] = Empty
    /\ \A i \in 1..documents[f] : embeddings[f][i] = Empty

\* ------------------------------------------------------------ store jobs
\* The database actor alone: callers send GetOrCreateDirectory,
\* CreateFileAndSpans and SearchDirectory jobs in any order, the actor takes
\* one job at a time and runs it to its reply. Directories can be nested, so
\* the same file path can be written under two directories.
DirPaths == {<<"p">>, <<"q">>, <<"p", Quote, " OR path != ", Quote>>}
FilePaths == {<<"a">>, <<"b">>}
Vectors == {<<1, 0>>, <<2, 0>>, <<0, 1>>}
Targets == {<<1, 0>>}

RECURSIVE Dot(_, _)
Dot(a, b) == IF a = <<>> \/ b = <<>> THEN 0
             ELSE Head(a) * Head(b) + Dot(Tail(a), Tail(b))

\* vector::similarity::cosine(a, q) >= vector::similarity::cosine(b, q),
\* compared without the square roots
SignedSquare(x) == IF x >= 0 THEN x * x ELSE - (x * x)
CosGe(a, b, q) ==
    SignedSquare(Dot(a, q)) * Dot(b, b) >= SignedSquare(Dot(b, q)) * Dot(a, a)

\* FROM span WHERE <-contains<-file<-owns<-(directory WHERE path = '{}')
Candidates(db, path) ==
    {s \in db.span : \E r \in db.file, d \in db.directory :
        r.id = s.file_id /\ d.id = r.directory_id /\ PathEq(path, d.path)}

\* SELECT id, array::first(<-contains<-file.path) as path, ...
SearchResult(db, s) ==
    [id |-> s.id,
     path |-> (CHOOSE r \in db.file : r.id = s.file_id).path]

\* the results the query can return: the candidates by similarity
\* descending, cut at the limit; the query gives no order among candidates
\* of equal similarity
search_directory(db, path, embedding, n) ==
    LET cands == Candidates(db, path)
        k == IF n < Cardinality(cands) THEN n ELSE Cardinality(cands)
        sorted == {r \in [1..k -> cands] :
            /\ \A i, j \in 1..k : i < j =>
                  r[i] # r[j] /\ CosGe(r[i].embedding, r[j].embedding, embedding)
            /\ \A t \in cands : (\A i \in 1..k : r[i] # t) =>
                  \A i \in 1..k : CosGe(r[i].embedding, t.embedding, embedding)}
    IN {[i \in 1..k |-> SearchResult(db, r[i])] : r \in sorted}

NoContext == [file |-> <<>>, path |-> <<>>, directory_id |-> NoId, embeddings |-> <<>>]

DatabaseJob(op, path, context, embedding, n) ==
    [op |-> op, path |-> path, context |-> context, embedding |-> embedding, n |-> n]

\* the FileContexts a caller can hand to the store: a file path, the id of a
\* directory row obtained before, and one vector per document
Contexts ==
    {[file |-> fp, path |-> fp, directory_id |-> d.id, embeddings |-> e] :
        fp \in FilePaths, d \in store.directory,
        e \in UNION {[1..m -> Vectors] : m \in 1..MaxDocs}}

storeframe == <<running, slots, mutex, wb,
                entries, cpc, walk_i, existing_paths, directory_state, job_count,
                notifier, parse_ch, emb_ch, embed_ch, finished, dbq, pc, drops,
                rmw, documents, embeddings, life, queue, flushq, qj_file,
                new_values, build, aborted, hist>>

StoreInit == Init /\ entries = <<>>

GetOrCreateDirectoryJob(path) ==
    /\ store.next_id <= MaxIds
    /\ LET r == get_or_create_directory(store, path)
       IN /\ store' = r.db
          /\ reply' = <<[job |-> DatabaseJob("GetOrCreateDirectory", path, NoContext, <<>>, 0),
                         ok |-> TRUE, id |-> r.id, result |-> <<>>]>>
    /\ UNCHANGED storeframe

CreateFileAndSpansJob(context) ==
    /\ store.next_id + Len(context.embeddings) <= MaxIds
    /\ store' = create_file_and_spans_of(store, context)
    /\ reply' = <<[job |-> DatabaseJob("CreateFileAndSpans", context.path, context, <<>>, 0),
                   ok |-> TRUE, id |-> NoId, result |-> <<>>]>>
    /\ UNCHANGED storeframe

\* statement number k + 1 returns an error: the job replies Err and the
\* first k statements stay done
CreateFileAndSpansErr(context, k) ==
    /\ store.next_id + Len(context.embeddings) <= MaxIds
    /\ k < Statements(context)
    /\ store' = create_file_and_spans_upto(store, context, k, [n |-> 0, file_id |-> NoId])
    /\ reply' = <<[job |-> DatabaseJob("CreateFileAndSpans", context.path, context, <<>>, 0),
                   ok |-> FALSE, id |-> NoId, result |-> <<>>]>>
    /\ UNCHANGED storeframe

SearchDirectoryJob(path, embedding, n) ==
    /\ IF Parses(path)
       THEN \E result \in search_directory(store, path, embedding, n) :
                reply' = <<[job |-> DatabaseJob("SearchDirectory", path, NoContext, embedding, n),
                            ok |-> TRUE, id |-> NoId, result |-> result]>>
       ELSE reply' = <<[job |-> DatabaseJob("SearchDirectory", path, NoContext, embedding, n),
                        ok |-> FALSE, id |-> NoId, result |-> <<>>]>>
    /\ UNCHANGED store
    /\ UNCHANGED storeframe

StoreNext ==
    \/ \E path \in DirPaths : GetOrCreateDirectoryJob(path)
    \/ \E context \in Contexts : CreateFileAndSpansJob(context)
    \/ \E path \in DirPaths, embedding \in Targets, n \in 1..MaxN :
            SearchDirectoryJob(path, embedding, n)

StoreSpec == StoreInit /\ [][StoreNext]_vars

\* the writes of the actor with store errors
StoreErrNext ==
    \/ \E path \in DirPaths : GetOrCreateDirectoryJob(path)
    \/ \E context \in Contexts : CreateFileAndSpansJob(context)
    \/ \E context \in Contexts : \E k \in 0..(Statements(context) - 1) :
            CreateFileAndSpansErr(context, k)

StoreErrSpec == StoreInit /\ [][StoreErrNext]_vars

\* ------------------------------------------- the actor, statement by statement
\* The database actor with its executor channel and the oneshot channel of
\* every request: callers on other tasks send jobs while the actor runs one,
\* and every statement the actor awaits on the database is a step of its
\* own, which returns a result or an error.
ActorDirs == {<<"p">>, <<"q">>}

ActorContexts ==
    {c \in Contexts : \A i \in 1..Len(c.embeddings) : c.embeddings[i] = <<1, 0>>}

ActorJobs ==
    {DatabaseJob("GetOrCreateDirectory", path, NoContext, <<>>, 0) : path \in ActorDirs}
    \cup {DatabaseJob("CreateFileAndSpans", c.path, c, <<>>, 0) : c \in ActorContexts}
    \cup {DatabaseJob("SearchDirectory", path, NoContext, e, MaxN) :
              path \in ActorDirs, e \in Targets}

actorframe == <<mutex, wb,
                entries, cpc, walk_i, existing_paths, directory_state, job_count,
                notifier, parse_ch, emb_ch, embed_ch, reply, finished, pc, drops,
                rmw, documents, embeddings, life, queue, flushq, qj_file,
                new_values, build, aborted, hist>>

\* a caller creates the oneshot of its request, sends the job on the
\* executor channel and awaits the receiver
Queue(r, job) ==
    /\ pc["actor"] = "recv"
    /\ slots[r].st = "none"
    /\ \A q \in 1..(r - 1) : slots[q].st # "none"
    /\ dbq' = Append(dbq, [r |-> r, job |-> job])
    /\ slots' = [slots EXCEPT ![r].st = "waiting"]
    /\ UNCHANGED <<running, store, actorframe>>

\* an actor that receives the next job while one is still running
CanTake_Always == TRUE

\* the actor is at receiver.recv(): the match arm of the job before has
\* returned
CanTake == running = <<>>

\* the actor receives a job; before is the store at that moment
ActorRecv ==
    /\ dbq # <<>> /\ CanTake
    /\ running' = Append(running, [r |-> Head(dbq).r, job |-> Head(dbq).job, n |-> 0,
                                   file_id |-> NoId, before |-> store])
    /\ dbq' = Tail(dbq)
    /\ UNCHANGED <<slots, store, actorframe>>

\* db.create("directory")
create_directory_row(db, path) ==
    [db EXCEPT !.directory = @ \cup {[id |-> db.next_id, path |-> path]},
               !.next_id = @ + 1]

\* the statement the call sends next: the store after it, and whether the
\* function returns Ok after it
Statement(db, call) ==
    CASE call.job.op = "GetOrCreateDirectory" ->
            IF call.n = 0
            THEN [db |-> db,
                  last |-> Cardinality({d \in db.directory : d.path = call.job.path}) = 1]
            ELSE [db |-> create_directory_row(db, call.job.path), last |-> TRUE]
      [] call.job.op = "CreateFileAndSpans" ->
            [db |-> create_file_and_spans_upto(db, call.job.context, call.n + 1,
                                               [n |-> call.n, file_id |-> call.file_id]),
             last |-> call.n + 1 = Statements(call.job.context)]
      [] OTHER -> [db |-> db, last |-> TRUE]

\* a sender that is dropped without a send when the result is an error
sender_send_OnlyOk(sl, r, ok) ==
    IF ok THEN [sl EXCEPT ![r] = [st |-> "replied", ok |-> ok, sent |-> @.sent + 1]]
    ELSE sl

\* let _ = sender.send(result)
sender_send(sl, r, ok) ==
    [sl EXCEPT ![r] = [st |-> "replied", ok |-> ok, sent |-> @.sent + 1]]

RemoveAt(seq, i) == SubSeq(seq, 1, i - 1) \o SubSeq(seq, i + 1, Len(seq))

\* the database answers the statement call number i awaits; after the last
\* statement the function returns Ok and the arm sends it
ActorStatement(i) ==
    /\ i \in 1..Len(running)
    /\ LET call == running[i]
           st == Statement(store, call)
       IN /\ store' = st.db
          /\ IF st.last
             THEN /\ slots' = sender_send(slots, call.r, TRUE)
                  /\ running' = RemoveAt(running, i)
             ELSE /\ running' = [running EXCEPT
                                    ![i].n = @ + 1,
                                    ![i].file_id =
                                        IF call.job.op = "CreateFileAndSpans" /\ call.n = 3
                                        THEN store.next_id ELSE @]
                  /\ UNCHANGED slots
    /\ UNCHANGED <<dbq, actorframe>>

\* the database returns an error for the statement: the function returns
\* Err and the arm sends it
ActorStatementErr(i) ==
    /\ i \in 1..Len(running)
    /\ slots' = sender_send(slots, running[i].r, FALSE)
    /\ running' = RemoveAt(running, i)
    /\ UNCHANGED <<store, dbq, actorframe>>

\* the senders of these requests are dropped without a send: their
\* receivers resolve with a RecvError
Closed(sl, rs) ==
    [r \in Requests |-> IF r \in rs THEN [sl[r] EXCEPT !.st = "closed"] ELSE sl[r]]

\* the SELECT of get_or_create_directory fails inside the response:
\* db.query(..).await is Ok, paths.take("id") is Err and its unwrap()
\* panics; with debug assertions on, the select that create_span makes
\* after creating a span row is unwrapped too. The actor task ends; the job
\* it ran and the jobs still on the executor channel are dropped with their
\* senders.
ActorStatementPanic(i) ==
    /\ i \in 1..Len(running)
    /\ \/ /\ running[i].job.op = "GetOrCreateDirectory" /\ running[i].n = 0
          /\ UNCHANGED build
       \/ /\ running[i].job.op = "CreateFileAndSpans"
          /\ running[i].n > 5 /\ (running[i].n - 5) % 2 = 1
          /\ build \in {"unknown", "debug"}
          /\ build' = "debug"
    /\ pc' = [pc EXCEPT !["actor"] = "panicked"]
    /\ slots' = Closed(slots, {running[k].r : k \in 1..Len(running)}
                              \cup {dbq[k].r : k \in 1..Len(dbq)})
    /\ running' = <<>>
    /\ dbq' = <<>>
    /\ UNCHANGED <<mutex, wb,
                   store, entries, cpc, walk_i, existing_paths, directory_state,
                   job_count, notifier, parse_ch, emb_ch, embed_ch, reply,
                   finished, drops, rmw, documents, embeddings, life, queue,
                   flushq, qj_file, new_values, aborted, hist>>

ActorNext ==
    \/ \E r \in Requests, job \in ActorJobs : Queue(r, job)
    \/ ActorRecv
    \/ \E i \in Requests : ActorStatement(i)
    \/ \E i \in Requests : ActorStatementErr(i)
    \/ \E i \in Requests : ActorStatementPanic(i)

ActorSpec == StoreInit /\ [][ActorNext]_vars

\* the store after the job ran alone on the store db
SerialEffect(db, job) ==
    CASE job.op = "GetOrCreateDirectory" -> get_or_create_directory(db, job.path).db
      [] job.op = "CreateFileAndSpans" -> create_file_and_spans_of(db, job.context)
      [] OTHER -> db

\* the reply of the last job the actor ran
LastReply(op) == reply # <<>> /\ reply[1].job.op = op /\ reply[1].ok

\* the span rows whose file is owned by the directory row with this path
DirectorySpans(path) ==
    {s \in store.span : \E r \in store.file, d \in store.directory :
        r.id = s.file_id /\ d.id = r.directory_id /\ d.path = path}

\* the span row with this id
SpanRow(id) == CHOOSE s \in store.span : s.id = id

\* span s comes before span t in the order: similarity to q descending,
\* then span id ascending
Before(s, t, q) ==
    \/ ~CosGe(t.embedding, s.embedding, q)
    \/ CosGe(s.embedding, t.embedding, q) /\ s.id < t.id

\* ----------------------------------------------------------- re-indexing
\* The directory was indexed before with NFiles files of MaxSpans documents
\* each, the store holds what that run wrote (every slot of a file carries
\* the vector of the file's first text, see Scatter), and the directory is
\* indexed again after some of the files were removed from disk ("gone": no
\* entry for the walk).
StoredContext(f, directory_id) ==
    [file |-> f, path |-> PathOf(f), directory_id |-> directory_id,
     embeddings |-> [i \in 1..MaxSpans |-> Embed(Text(f, 0))]]

RECURSIVE StoredFiles(_, _, _)
StoredFiles(db, f, directory_id) ==
    IF f > NFiles THEN db
    ELSE StoredFiles(create_file_and_spans_of(db, StoredContext(f, directory_id)),
                     f + 1, directory_id)

IndexedStore ==
    LET r == get_or_create_directory(
                [directory |-> {}, file |-> {}, span |-> {}, next_id |-> 1], Dir)
    IN StoredFiles(r.db, 1, r.id)

ReindexInit ==
    /\ entries \in [1..NFiles -> {"rs", "gone"}]
    /\ cpc = "start"
    /\ walk_i = 1
    /\ existing_paths = {}
    /\ directory_state = {}
    /\ job_count = 0
    /\ permit = FALSE
    /\ waitq = <<>>
    /\ wst = [w \in Waiters |-> "none"]
    /\ parse_ch = <<>>
    /\ emb_ch = <<>>
    /\ embed_ch = <<>>
    /\ reply = <<>>
    /\ finished = <<>>
    /\ dbq = <<>>
    /\ pc = [t \in Tasks \cup {Worker} |-> "recv"]
    /\ drops = [t \in Tasks |-> <<>>]
    /\ rmw = [t \in Tasks |-> NoRmw]
    /\ documents = [f \in Files |-> 0]
    /\ embeddings = [f \in Files |-> <<>>]
    /\ life = [f \in Files |-> "none"]
    /\ queue = <<>>
    /\ flushq = <<>>
    /\ qj_file = NoFile
    /\ new_values = FALSE
    /\ store = IndexedStore
    /\ build = "unknown"
    /\ aborted = FALSE
    /\ running = <<>>
    /\ slots = [r \in Requests |-> NoSlot]
    /\ mutex = [f \in Files |-> "none"]
    /\ wb = 0
    /\ hist = [fires |-> 0, new_job |-> 0, job_dropped |-> 0, embedded |-> <<>>]

ReindexSpec == ReindexInit /\ [][Next]_vars

\* the files removed from disk since the directory was indexed
Gone == {f \in Files : entries[f] = "gone"}

\* file f parsed successfully to zero spans
ZeroSpans(f) == documents[f] = 0 /\ life[f] \in {"created", "live", "destroyed"}

\* a text of file f is in a request to the embedding provider
Requested(f) ==
    \E i \in 1..Len(embed_ch) : \E k \in 1..Len(embed_ch[i]) : embed_ch[i][k][1] = f

\* slot idx of file f is covered by a fragment of the queue q
Covered(q, f, idx) ==
    \E k \in 1..Len(q) :
        q[k].file = f /\ q[k].start_idx <= idx /\ idx <= q[k].end_idx

\* the text of slot idx of file f is in a request to the embedding provider
Dispatched(ch, f, idx) ==
    \E i \in 1..Len(ch) : \E k \in 1..Len(ch[i]) : ch[i][k] = Text(f, idx)

\* no slot of file f is empty
AllFilled(f) == \A i \in 1..documents[f] : embeddings[f][i] # Empty

\* ----------------------------------------------------------------- claims
\* C1: at the step in which the notifier fires, no file the walk submitted
\* is still waiting in the parse channel, the embedding queue or the
\* finished-files channel.
C1_NotifyWhenAllFilesDone ==
    [][hist'.fires > hist.fires => \A f \in Files : ~InFlight(f)']_vars

\* C2: once notified() has resolved for a task, get_status of the directory
\* is Indexed in every later state.
C2_IndexedAfterNotified ==
    (\E w \in Waiters : wst[w] = "resolved") => get_status(Dir).tag = "Indexed"

\* C3: when the walk submitted no file, a task awaiting the notifier is not
\* left waiting, get_status is Indexed and the store has no file row.
C3_EmptyWalkResolves ==
    (cpc = "returned" /\ Indexable = {}) =>
        /\ \A w \in Waiters : wst[w] # "waiting"
        /\ get_status(Dir).tag = "Indexed"
        /\ store.file = {}

\* C4: a file that parsed to at least one span is written to the store; its
\* FileContext is never destroyed before that (a destroyed FileContext can
\* no longer be published or written).
C4_SpansAreWritten ==
    \A f \in Files : (life[f] = "destroyed" /\ documents[f] >= 1) => Written(f)

\* C5: the counter equals the number of FileContexts that entered the
\* embedding stage and are not destroyed yet.
C5_CountIsLiveFiles ==
    job_count = Cardinality({f \in Files : life[f] = "live"})

\* C6: job_dropped never decrements a counter that is 0.
C6_NoUnderflow ==
    \A t \in Tasks : rmw[t].op = "job_dropped" => rmw[t].cur # 0

\* C7: when n new_job calls and m job_dropped calls have completed and none
\* is in progress, the counter is n - m.
C7_AtomicCounter ==
    NoCallInProgress => job_count = hist.new_job - hist.job_dropped

\* C8: notify is fired at most once for the Directory Job.
C8_NotifyAtMostOnce == hist.fires <= 1

\* C9: once notify has fired, no task awaiting notified() is left waiting.
C9_NotifierIsLatch ==
    hist.fires > 0 => \A w \in Waiters : wst[w] # "waiting"

\* C10 as stated: right after index_directory returned for a directory with
\* N >= 1 indexable files, get_status is Indexing with 1 <= outstanding <= N.
C10_IndexingAfterReturn ==
    (JustReturned /\ Indexable # {}) =>
        /\ get_status(Dir).tag = "Indexing"
        /\ get_status(Dir).jobs_outstanding >= 1
        /\ get_status(Dir).jobs_outstanding <= Cardinality(Indexable)

\* C10 amended: right after index_directory returned for a directory with
\* N >= 1 indexable files, get_status is never NotIndexed: it is Indexed, or
\* Indexing with 1 <= outstanding <= N, or, once job_dropped has wrapped the
\* counter below zero in a build without overflow checks, Indexing with an
\* outstanding between usize::MAX - N + 1 and usize::MAX (written -N .. -1).
C10_StatusAfterReturn ==
    (JustReturned /\ Indexable # {}) =>
        /\ get_status(Dir).tag \in {"Indexed", "Indexing"}
        /\ get_status(Dir).tag = "Indexing" =>
              /\ get_status(Dir).jobs_outstanding # 0
              /\ get_status(Dir).jobs_outstanding <= Cardinality(Indexable)
              /\ get_status(Dir).jobs_outstanding >= - Cardinality(Indexable)
              /\ get_status(Dir).jobs_outstanding < 0 => build = "release"

\* C10 witness: index_directory has returned and every one of two indexable
\* files has been counted by the parser: Indexing with outstanding = N.
C10_Witness ==
    /\ JustReturned
    /\ Cardinality(Indexable) = 2
    /\ get_status(Dir) = [tag |-> "Indexing", jobs_outstanding |-> 2]

\* C11 as stated: between two reads of get_status the outstanding value does
\* not decrease unless it becomes zero, and once it is zero after files were
\* counted it stays zero.
C11_NonDecreasingThenZero ==
    [][/\ ULe(Outstanding, Outstanding') \/ Outstanding' = 0
       /\ (Outstanding = 0 /\ hist.new_job > 0) => Outstanding' = 0]_vars

\* C11 amended: the outstanding value rises and falls: it changes only when
\* a new_job call writes the value it read plus one or a job_dropped call
\* writes the value it read minus one, and it is never above the number of
\* completed new_job calls nor below minus the number of completed
\* job_dropped calls.
C11_RisesAndFalls ==
    [][/\ Outstanding' # Outstanding =>
            \E t \in Tasks :
                /\ rmw'[t] = NoRmw
                /\ \/ rmw[t].op = "new_job" /\ Outstanding' = rmw[t].cur + 1
                   \/ rmw[t].op = "job_dropped" /\ Outstanding' = rmw[t].cur - 1
       /\ Outstanding' <= hist'.new_job
       /\ Outstanding' >= - hist'.job_dropped]_vars

\* C11 witness: two files were counted, one FileContext was destroyed and no
\* job_dropped wrote zero: the value read went 2, then 1.
C11_Witness ==
    /\ hist.new_job = 2 /\ hist.job_dropped = 1 /\ hist.fires = 0
    /\ NoCallInProgress
    /\ get_status(Dir) = [tag |-> "Indexing", jobs_outstanding |-> 1]

\* C20: when the batching task takes the file that brings the spans queued
\* since the last flush to exactly BATCH_SPANS, it makes one embed call that
\* carries all BATCH_SPANS texts and leaves nothing queued; and a timer
\* flush that finds the queue empty makes no embed call.
C20_OneCallOfBatchSpans ==
    [][/\ \A g, f \in Files :
            (BoundaryJob(g, f) /\ emb_ch' = Tail(emb_ch)) =>
                /\ embed_ch' = Append(embed_ch, AllTexts(g) \o AllTexts(f))
                /\ queue' = <<>>
       /\ (queue = <<>> /\ new_values /\ ~new_values') => embed_ch' = embed_ch]_vars

\* C20 scenario: a file of 6 spans is queued and a file of 4 spans is next.
C20_Boundary ==
    \E g, f \in Files :
        BoundaryJob(g, f) /\ documents[g] = 6 /\ documents[f] = 4

\* C17: every span row of the store carries a non-empty embedding, and every
\* FileContext that is published to the finished-files channel or handed to
\* the database actor has all of its slots filled.
C17_SpansHaveEmbeddings ==
    /\ \A s \in store.span : s.embedding # Empty
    /\ \A i \in 1..Len(finished) :
          \A k \in 1..documents[finished[i]] : embeddings[finished[i]][k] # Empty
    /\ \A i \in 1..Len(dbq) :
          \A k \in 1..documents[dbq[i]] : embeddings[dbq[i]][k] # Empty

\* C17 witness: a file whose slots were filled by two different flushes (the
\* size-triggered one and a later one) has been written to the store.
C17_Witness ==
    \E f \in Files :
        /\ \E s \in store.span : s.sha = Text(f, documents[f] - 1)
        /\ embeddings[f][1] # embeddings[f][documents[f]]

\* C18: once the re-indexing walk has returned, the store has no file row
\* and no span row of a file that was removed from disk, and it has a file
\* row for every file the walk visited, in this and in every later state.
C18_ReindexDeletesUnvisited ==
    cpc = "returned" =>
        /\ \A f \in Gone :
              /\ ~Written(f)
              /\ \A s \in store.span : s.sha[1] # f
        /\ \A f \in Indexable : Written(f)

\* C18 witness: a stored file was removed from disk and another one was not;
\* the walk has returned, the store holds no file row of the removed file
\* and holds the file row of the other.
C18_Witness ==
    /\ cpc = "returned"
    /\ Gone # {} /\ Indexable # {}
    /\ \A f \in Gone : ~Written(f)
    /\ \A f \in Indexable : Written(f)

\* C19: when a stored directory is indexed again, no text whose sha is
\* stored in a span row is sent to the embedding provider.
C19_NoEmbedOfStoredSha ==
    \A i \in 1..Len(embed_ch) : \A k \in 1..Len(embed_ch[i]) :
        ~ \E s \in store.span : s.sha = embed_ch[i][k]

\* C12: every result of a search for a directory path is a span whose file
\* is owned by the directory row with that path.
C12_SearchIsolation ==
    LastReply("SearchDirectory") =>
        \A i \in 1..Len(reply[1].result) :
            \E s \in DirectorySpans(reply[1].job.path) : s.id = reply[1].result[i].id

\* C13: a search with limit n returns the spans of the directory in the
\* order similarity descending, then span id ascending, cut after the first
\* n: as many results as the directory has spans, up to n, each before the
\* next in that order and before every span of the directory left out.
C13_TopNeighbours ==
    LastReply("SearchDirectory") =>
        LET result == reply[1].result
            q == reply[1].job.embedding
            spans == DirectorySpans(reply[1].job.path)
            ids == {result[i].id : i \in 1..Len(result)}
        IN /\ Len(result) = IF reply[1].job.n < Cardinality(spans)
                            THEN reply[1].job.n ELSE Cardinality(spans)
           /\ \A i \in 1..Len(result) : \E s \in spans : s.id = result[i].id
           /\ \A i, j \in 1..Len(result) :
                 i < j => Before(SpanRow(result[i].id), SpanRow(result[j].id), q)
           /\ \A t \in spans : t.id \notin ids =>
                 \A i \in 1..Len(result) : Before(SpanRow(result[i].id), t, q)

\* C14: after a successful create_file_and_spans the store has exactly one
\* file row with the path of the context, owned by the context's directory
\* id; the span rows of that file row are one per document with its sha and
\* embedding; and no other span row of an earlier write of the same path is
\* left in the store.
C14_Overwrite ==
    LastReply("CreateFileAndSpans") =>
        LET c == reply[1].job.context
            rows == {r \in store.file : r.path = c.path}
        IN /\ Cardinality(rows) = 1
           /\ \A r \in rows :
                 /\ r.directory_id = c.directory_id
                 /\ {[sha |-> x.sha, embedding |-> x.embedding] :
                        x \in {s \in store.span : s.file_id = r.id}}
                    = {[sha |-> Text(c.file, i - 1), embedding |-> c.embeddings[i]] :
                        i \in 1..Len(c.embeddings)}
                 /\ Cardinality({s \in store.span : s.file_id = r.id})
                    = Len(c.embeddings)
                 /\ \A s \in store.span : s.sha[1] = c.file => s.file_id = r.id

\* C15: the store never holds two file rows with the same directory id and
\* path, and every file row is owned by exactly one directory row, also
\* after writes that returned an error part-way.
C15_FileRowsOwnedOnce ==
    /\ \A r1, r2 \in store.file :
          (r1.directory_id = r2.directory_id /\ r1.path = r2.path) => r1 = r2
    /\ \A r \in store.file :
          Cardinality({d \in store.directory : d.id = r.directory_id}) = 1

\* C16: a GetOrCreateDirectory job returns the id of the one directory row
\* with its path, which is the id every earlier job returned for that path:
\* rows are never removed or changed and the store never holds two rows
\* with the same path.
C16_DirectoryIdempotent ==
    [][/\ store.directory \subseteq store'.directory
       /\ \A d1, d2 \in store'.directory : d1.path = d2.path => d1 = d2
       /\ LastReply("GetOrCreateDirectory")' =>
             /\ [id |-> reply'[1].id, path |-> reply'[1].job.path] \in store'.directory
             /\ \A d \in store.directory :
                   d.path = reply'[1].job.path => d.id = reply'[1].id]_vars

\* C16 witness: the last GetOrCreateDirectory job returned the id of a row
\* that an earlier job had created, with other rows created in between.
C16_Witness ==
    /\ LastReply("GetOrCreateDirectory")
    /\ reply[1].id < store.next_id - 2
    /\ Cardinality(store.directory) >= 2
    /\ store.file # {}

\* C21: a file that parsed to zero spans is counted by a step that raises
\* outstanding by one; it is never in a fragment, in a request to the
\* provider, on the finished-files channel or with the database actor, and
\* has no row; and it is destroyed by a step that lowers outstanding by one.
C21_ZeroSpanFile ==
    [][\A f \in Files : ZeroSpans(f)' =>
          /\ (life[f] = "created" /\ life'[f] = "live") => job_count' = job_count + 1
          /\ (life[f] = "live" /\ life'[f] = "destroyed") => job_count' = job_count - 1
          /\ Count(FragFiles(queue'), f) = 0 /\ Count(FragFiles(flushq'), f) = 0
          /\ ~Requested(f)'
          /\ Count(finished', f) = 0 /\ Count(dbq', f) = 0
          /\ ~Written(f)']_vars

\* C22: every FileAggregate has as many embedding slots as documents, from
\* its creation by parse_file through prefill, write-back and destruction.
C22_SlotPerDocument ==
    \A f \in Files :
        life[f] \in {"created", "live", "destroyed"} => Len(embeddings[f]) = documents[f]

\* C22 witness: a file between two write-backs, with a filled slot and an
\* empty one.
C22_Witness ==
    \E f \in Files :
        /\ life[f] = "live"
        /\ \E i, j \in 1..documents[f] :
              embeddings[f][i] # Empty /\ embeddings[f][j] = Empty

\* C26: when a flush completes, every slot covered by a fragment of the
\* batch holds the vector the provider computes for the document of that
\* slot.
C26_ScatterPositional ==
    [][(pc["queue"] = "await_embed" /\ pc'["queue"] = "recv") =>
          \A k \in 1..Len(flushq) :
              \A idx \in flushq[k].start_idx..flushq[k].end_idx :
                  embeddings'[flushq[k].file][idx + 1] = Embed(Text(flushq[k].file, idx))]_vars

\* C28: in the state the batching task reaches by running queue_job on an
\* Embed job up to its return or to the await of its flush, every slot of
\* the file that was empty on entry has its text in an embed request or is
\* covered by a fragment of the pending queue.
C28_EnqueuePostCondition ==
    [][(pc["queue"] = "recv" /\ emb_ch # <<>> /\ emb_ch' = Tail(emb_ch)
        /\ pc'["queue"] # "panicked") =>
          \A idx \in 0..(documents[Head(emb_ch)] - 1) :
              embeddings[Head(emb_ch)][idx + 1] = Empty =>
                  \/ Dispatched(embed_ch', Head(emb_ch), idx)
                  \/ Covered(queue', Head(emb_ch), idx)]_vars

\* C29: a step that publishes a file on the finished-files channel
\* publishes it once, leaves it with every slot filled, and is the step in
\* which its last empty slot was filled; a parsed file whose slots are all
\* filled never has an empty slot again, so a file is published at most
\* once over its lifetime.
C29_PublishedOnceComplete ==
    [][\A f \in Files :
          /\ Count(finished', f) > Count(finished, f) =>
                /\ Count(finished', f) = Count(finished, f) + 1
                /\ AllFilled(f)'
                /\ ~AllFilled(f)
          /\ (life[f] \in {"live", "destroyed"} /\ AllFilled(f)) => AllFilled(f)']_vars

\* C29 witness: a file on the finished-files channel whose slots were filled
\* by two different flushes.
C29_Witness ==
    \E f \in Files :
        /\ Count(finished, f) = 1
        /\ embeddings[f][1] # embeddings[f][documents[f]]

\* C30: the step in which a file fails to parse leaves outstanding as it
\* was, starts no new_job, sends nothing to the embedding channel and leaves
\* the parser task receiving, with the later files still on the parse
\* channel; a failed file stays failed and no FileContext of it exists.
C30_ParseFailureSkipsFile ==
    [][\A f \in Files :
          /\ (life[f] # "failed" /\ life'[f] = "failed") =>
                /\ job_count' = job_count /\ rmw' = rmw /\ hist' = hist
                /\ emb_ch' = emb_ch /\ drops' = drops
                /\ pc'["parser"] = "recv" /\ Idle("parser")'
                /\ parse_ch = <<f>> \o parse_ch'
          /\ life[f] = "failed" =>
                /\ life'[f] = "failed"
                /\ RefCount(f)' = 0
                /\ \A t \in Tasks : rmw'[t].file # f]_vars

\* C30 witness: the first file failed to parse and the file after it on the
\* parse channel was parsed, counted and sent to the batching task.
C30_Witness ==
    /\ NFiles >= 2
    /\ life[1] = "failed"
    /\ life[2] = "live" /\ Count(emb_ch, 2) = 1

\* C27: every request to the embedding provider carries at most BATCH_SPANS
\* texts.
C27_BatchAtMostBatchSpans ==
    \A i \in 1..Len(embed_ch) : Len(embed_ch[i]) <= BATCH_SPANS

\* C23: a long-lived task that receives the closure of its drained input
\* channel terminates in that step: the parser and the persistence task
\* leave their loop, and the batching task does not treat the closure as a
\* received value and go round its loop again.
C23_TasksExitOnClosedChannel ==
    [][/\ (ParseClosed /\ parse_ch = <<>> /\ pc'["parser"] # pc["parser"]
            /\ pc["parser"] = "recv" /\ Idle("parser"))
          => pc'["parser"] = "exited"
       /\ (FinishedClosed /\ finished = <<>> /\ pc'["pers"] # pc["pers"]
            /\ pc["pers"] = "recv" /\ Idle("pers"))
          => pc'["pers"] = "exited"
       /\ (EmbeddingClosed /\ emb_ch = <<>> /\ new_values' # new_values
            /\ pc["queue"] = "recv" /\ Idle("queue"))
          => pc'["queue"] = "exited"]_vars

\* C24: the actor has at most one job in progress, and when a job returns
\* Ok the store is the store at the moment the job was received with that
\* job's statements, and no others, applied to it.
C24_OneJobAtATime ==
    [][/\ Len(running') <= 1
       /\ \A i \in 1..Len(running) :
             (slots[running[i].r].st = "waiting"
              /\ slots'[running[i].r].st = "replied" /\ slots'[running[i].r].ok)
             => store' = SerialEffect(running[i].before, running[i].job)]_vars

\* C24 witness: a CreateFileAndSpans job has created its file row and not
\* yet its spans while another write waits on the executor channel.
C24_Witness ==
    /\ Len(running) = 1 /\ Len(dbq) = 1
    /\ Head(dbq).job.op = "CreateFileAndSpans"
    /\ running[1].job.op = "CreateFileAndSpans" /\ running[1].n = 4

\* C25: a request the actor received leaves the actor with exactly one
\* result written to its reply slot, whether its statements succeeded or
\* the store returned an error; a written slot is never written again.
C25_ExactlyOneReply ==
    [][/\ \A i \in 1..Len(running) :
             (\A k \in 1..Len(running') : running'[k].r # running[i].r)
             => (slots'[running[i].r].st = "replied"
                 /\ slots'[running[i].r].sent = 1)
       /\ \A r \in Requests :
             /\ slots'[r].sent <= 1
             /\ slots[r].st = "replied" => slots'[r] = slots[r]]_vars

\* no caller is left waiting: a slot that is still awaited belongs to a
\* request on the executor channel or in progress in the actor
C25_NoLostRequest ==
    \A r \in Requests :
        slots[r].st = "waiting" =>
            \/ \E k \in 1..Len(dbq) : dbq[k].r = r
            \/ \E k \in 1..Len(running) : running[k].r = r

\* C31: once an embed call has failed, no empty slot is filled, no file is
\* published on the finished-files channel, a file with an empty slot is
\* neither with the database actor nor in the store, and the batching task
\* leaves the failed flush back at its receive, ready for later jobs.
C31_FailedBatchNotRetried ==
    [][pc'[Worker] = "panicked" =>
          /\ \A f \in Files : \A i \in 1..Len(embeddings[f]) :
                embeddings[f][i] = Empty => embeddings'[f][i] = Empty
          /\ \A f \in Files : Count(finished', f) <= Count(finished, f)
          /\ \A f \in Files : (documents'[f] > 0 /\ ~AllFilled(f)') =>
                (Count(dbq', f) = 0 /\ ~Written(f)')
          /\ (pc[Worker] = "panicked" /\ pc["queue"] = "await_embed"
              /\ pc'["queue"] # "await_embed") => pc'["queue"] = "recv"]_vars

\* C31 witness: the batch with file f failed and f was destroyed with empty
\* slots, and the batching task has queued a later file g since.
C31_Witness ==
    /\ pc[Worker] = "panicked"
    /\ \E f, g \in Files :
          /\ f # g /\ life[f] = "destroyed" /\ documents[f] > 0 /\ ~AllFilled(f)
          /\ Count(FragFiles(queue), g) > 0

\* C32: once an embed call has failed, a live file that still has an empty
\* slot stays live: no step destroys its FileContext, so its contribution
\* to outstanding is not taken back.
C32_FailedFilesStayLive ==
    [][\A f \in Files :
          (pc[Worker] = "panicked" /\ life[f] = "live"
           /\ documents[f] > 0 /\ ~AllFilled(f))
          => (life'[f] = "live" /\ job_count' >= job_count)]_vars

\* C33: a write that fails with a store error leaves the store as it was,
\* hands the file's FileContext to destruction and leaves the persistence
\* task receiving; the step that destroys a FileContext released by the
\* actor lowers outstanding by one.
C33_FailedWriteDropped ==
    [][\A f \in Files :
          /\ FailedWrite(f) =>
                /\ store' = store
                /\ drops'["actor"] = <<f>>
                /\ pc'["pers"] = "recv"
          /\ (rmw["actor"].file = f /\ life[f] = "live" /\ life'[f] = "destroyed")
                => job_count' = job_count - 1]_vars


\* the batching task holds the Mutex of some FileContext
QueueHolds == \E f \in Files : mutex[f] = "queue"

\* C35: when the batching task sends a completed file on the finished-files
\* channel it has already released that file's Mutex, so it never waits in
\* the send while holding the lock.
C35_ReleasedBeforeSend ==
    pc["queue"] = "send_finished" => mutex[flushq[wb + 1].file] = "none"

\* the batching task waits for room on the finished-files channel while it
\* holds the Mutex of the file it is sending
C35_BlockedHolding == SendBlocked /\ mutex[flushq[wb + 1].file] = "queue"

\* the persistence task or the database actor has a step to take
PersistenceCanStep ==
    \/ ENABLED PersistFinished
    \/ ENABLED CreateFileAndSpans
    \/ \E t \in {"pers", "actor"} : ENABLED (DropRead(t) \/ DropWrite(t))

Submissions(f, idx) == Count(hist.embedded, Text(f, idx))

\* C36: no text is handed to the provider twice, and once a file that was
\* enqueued has left the pipeline (its FileContext is destroyed, the
\* batching task did not panic), the text of each of its documents was
\* handed to the provider exactly once.
C36_EachTextOnce ==
    /\ \A f \in Files : \A idx \in 0..(documents[f] - 1) : Submissions(f, idx) <= 1
    /\ \A f \in Files :
          (life[f] = "destroyed" /\ pc["queue"] # "panicked" /\ ~aborted) =>
              \A idx \in 0..(documents[f] - 1) : Submissions(f, idx) = 1

\* C36 without the skipped documents: no text is handed to the provider twice
C36_AtMostOnce ==
    \A f \in Files : \A idx \in 0..(documents[f] - 1) : Submissions(f, idx) <= 1


\* C37: every call of the provider carries at least one text, whether the
\* flush behind it was triggered by the queue reaching BATCH_SPANS or by the
\* timer.
C37_NoEmptyEmbedCall ==
    [][(embed_ch # <<>> /\ embed_ch' = Tail(embed_ch)
        /\ reply' = <<embed(Head(embed_ch))>>) => Head(embed_ch) # <<>>]_vars


\* C38: with a provider that returns one vector per text, flush_queue never
\* indexes out of range: every fragment's indices lie within the documents
\* and the slots of its file, the vectors returned for a batch are at least
\* as many as its fragments, and the write-back does not panic.
C38_NoIndexOutOfRange ==
    /\ \A k \in 1..Len(queue) : InRange(queue[k])
    /\ \A k \in 1..Len(flushq) : InRange(flushq[k])
    /\ (pc["queue"] = "await_embed" /\ reply # <<>>) =>
          /\ Len(flushq) <= Len(reply[1])
          /\ ~Scatter(flushq, 1, embeddings, <<>>, reply[1]).panicked

\* C38 witness: a batch of MaxJobs fragments, the last of which contributes
\* no text, has come back with exactly MaxJobs vectors.
C38_Witness ==
    /\ pc["queue"] = "await_embed" /\ reply # <<>>
    /\ Len(flushq) = MaxJobs /\ Len(reply[1]) = MaxJobs
    /\ flushq[MaxJobs].start_idx = flushq[MaxJobs].end_idx


\* C39: once index_directory has returned an error for a directory that was
\* never indexed before, get_status of the directory is NotIndexed, as it
\* was before the call.
C39_ErrorLeavesStatus ==
    cpc = "failed" => get_status(Dir) = [tag |-> "NotIndexed", jobs_outstanding |-> 0]

\* C39 for the errors returned before the DirectoryState is inserted: the
\* step in which index_directory fails without having touched the store
\* leaves get_status as it was.
C39_EarlyErrorLeavesStatus ==
    [][(cpc = "start" /\ cpc' = "failed" /\ store' = store) =>
          get_status(Dir)' = get_status(Dir)]_vars


\* the file rows owned by the directory row with this id
OwnedFiles(db, directory_id) == {r \in db.file : r.directory_id = directory_id}

\* C40: a CreateFileAndSpans job for a file of one directory leaves the file
\* rows owned by every other directory, and the span rows reached through
\* them, as they were, also when both directories own a file row with the
\* path of the job.
C40_OtherDirectoriesUntouched ==
    [][(reply' # <<>> /\ reply'[1].job.op = "CreateFileAndSpans" /\ store' # store) =>
          \A d \in store.directory :
              d.id # reply'[1].job.context.directory_id =>
                  /\ OwnedFiles(store', d.id) = OwnedFiles(store, d.id)
                  /\ DirectorySpans(d.path)' = DirectorySpans(d.path)]_vars

\* C40 for files with different paths: a CreateFileAndSpans job leaves the
\* rows of every other directory that owns no file with the path of the
\* job as they were.
C40_OtherPathsUntouched ==
    [][(reply' # <<>> /\ reply'[1].job.op = "CreateFileAndSpans" /\ store' # store) =>
          \A d \in store.directory :
              (/\ d.id # reply'[1].job.context.directory_id
               /\ \A r \in OwnedFiles(store, d.id) : r.path # reply'[1].job.path) =>
                  /\ OwnedFiles(store', d.id) = OwnedFiles(store, d.id)
                  /\ DirectorySpans(d.path)' = DirectorySpans(d.path)]_vars

====
